---- MODULE Spec2Model ----
(***************************************************************************)
(* Model of AutoDiag/native/j2534_native_probe.cpp.                        *)
(*                                                                         *)
(* The probe is one sequential run of main(): check argc, LoadLibraryA,    *)
(* three GetProcAddress calls, PassThruOpen, PassThruClose, FreeLibrary,   *)
(* one report, return.  The operating system and the vendor library are    *)
(* the environment: what they return is chosen nondeterministically from   *)
(* small sets.  The two streams are kept as sequences of text fragments    *)
(* (JSON tokens of the source literals, single characters of inserted      *)
(* values); the content of a stream is the concatenation of its fragments. *)
(* Texts handed over by the environment (FormatMessageA, the driver's      *)
(* error buffer) are short single-line character sequences, NUL-terminated *)
(* inside the 256-byte buffer.                                             *)
(***************************************************************************)
EXTENDS Integers, Sequences, FiniteSets, TLC

VARIABLES pc, argc, lib, passThruOpen, passThruClose, passThruGetLastError,
          deviceId, openStatus, closeStatus, cout, cerr, exitCode, trace,
          lastError,    \* DWORD err of GetLastWinError
          fmResult,     \* size and buffer left by FormatMessageA
          driverText,   \* what PassThruGetLastError wrote
          errBuf,       \* char err[256] of main, as a text
          closeArg,     \* the argument PassThruClose was called with
          history       \* the completed earlier runs of the probe

vars == <<pc, argc, lib, passThruOpen, passThruClose, passThruGetLastError,
          deviceId, openStatus, closeStatus, cout, cerr, exitCode, trace,
          lastError, fmResult, driverText, errBuf, closeArg, history>>

----------------------------------------------------------------------------
(* Bounds of the environment.                                              *)

MaxArgc == 3          \* argc ranges over 0..MaxArgc
MaxStatus == 2        \* driver status codes -MaxStatus..MaxStatus, plus the extremes of long
MaxDeviceId == 2      \* device ids written by PassThruOpen: 0..MaxDeviceId

(* long is 32 bits wide on the Windows ABI the file is written for.        *)
LONG_MAX == 2147483647
LONG_MIN == (-2147483647) - 1

NULL == 0             \* null pointer / null HMODULE
Handle == 1           \* the non-null value of a pointer or handle
NoExit == -1          \* exitCode while main has not returned
NoCall == -1          \* closeArg while PassThruClose has not been called

StatusValues == ((-MaxStatus)..MaxStatus) \cup {LONG_MIN, LONG_MAX}
DeviceIds == 0..MaxDeviceId
Pointers == {NULL, Handle}

(* GetLastError() values after a failed LoadLibraryA: 0 (nothing recorded), *)
(* ERROR_MOD_NOT_FOUND, ERROR_BAD_EXE_FORMAT.                              *)
LastErrors == {0, 126, 193}

(* What FormatMessageA can leave behind: the returned size and the buffer  *)
(* it allocated (null when nothing was allocated).                         *)
FormatResults ==
    { [size |-> 0, null |-> TRUE,  text |-> <<>>],
      [size |-> 0, null |-> FALSE, text |-> <<>>],
      [size |-> 2, null |-> FALSE, text |-> <<"n", "f">>],
      [size |-> 3, null |-> FALSE, text |-> <<"b", "a", "d">>] }

(* LPSTR buffer = nullptr: nothing allocated *)
NoBuffer == [size |-> 0, null |-> TRUE, text |-> <<>>]

(* Texts PassThruGetLastError may write into err[256] (possibly nothing).     *)
DriverTexts == { <<>>, <<"E", "1">>, <<"b", "u", "s", "y">> }

----------------------------------------------------------------------------
(* operator<<(long): the decimal text of a signed 32-bit value, as a       *)
(* sequence of characters.                                                 *)

DigitChar == <<"0", "1", "2", "3", "4", "5", "6", "7", "8", "9">>

RECURSIVE NegDigits(_)
(* digits of the magnitude of n, for n <= 0, without negating n *)
NegDigits(n) ==
    LET d == (10 - (n % 10)) % 10
        rest == (n + d) \div 10
    IN  IF rest = 0 THEN <<DigitChar[d + 1]>>
        ELSE NegDigits(rest) \o <<DigitChar[d + 1]>>

(* a signed value printed without its sign *)
LongToString_NoSign(n) ==
    IF n = 0 THEN <<"0">> ELSE NegDigits(IF n < 0 THEN n ELSE 0 - n)

LongToString(n) ==
    IF n < 0 THEN <<"-">> \o NegDigits(n)
    ELSE IF n = 0 THEN <<"0">>
    ELSE NegDigits(0 - n)

----------------------------------------------------------------------------
(* The string literals of main, split at JSON token boundaries.            *)

UsageLine == <<"usage: j2534_native_probe <path-to-j2534-dll>", "\n">>

ErrorHead(stage) ==
    <<"{", "\"status\"", ":", "\"error\"", ",", "\"stage\"", ":", stage>>

LoadPrefix    == ErrorHead("\"load\"") \o <<",", "\"message\"", ":", "\"">>
SymbolsReport == ErrorHead("\"symbols\"")
                 \o <<",", "\"message\"", ":", "\"Required J2534 exports missing\"", "}">>
OpenPrefix    == ErrorHead("\"open\"") \o <<",", "\"code\"", ":">>
ClosePrefix   == ErrorHead("\"close\"") \o <<",", "\"code\"", ":">>
MessageOpen   == <<",", "\"message\"", ":", "\"">>
MessageEnd    == <<"\"", "}">>
CloseTail     == <<",", "\"message\"", ":", "\"PassThruClose failed\"", "}">>
OkReport      == <<"{", "\"status\"", ":", "\"ok\"", ",", "\"message\"", ":",
                   "\"J2534 DLL probe successful\"", "}">>
Endl          == <<"\n">>

----------------------------------------------------------------------------
(* GetLastWinError(): the message for a last-error code and the outcome of *)
(* FormatMessageA, and the native calls it makes.                          *)

GetLastWinError(err, fm) ==
    IF err = 0 THEN <<"n", "o", "n", "e">>
    ELSE IF fm.size # 0 /\ ~fm.null THEN SubSeq(fm.text, 1, fm.size)
    ELSE <<"u", "n", "k", "n", "o", "w", "n">>

(* the buffer freed only when a message was produced *)
GetLastWinErrorCalls_LeakOnUnknown(err, fm) ==
    IF err = 0 THEN <<"GetLastError">>
    ELSE <<"GetLastError", "FormatMessageA">>
         \o (IF fm.size # 0 /\ ~fm.null THEN <<"LocalFree">> ELSE <<>>)

GetLastWinErrorCalls(err, fm) ==
    IF err = 0 THEN <<"GetLastError">>
    ELSE <<"GetLastError", "FormatMessageA">>
         \o (IF ~fm.null THEN <<"LocalFree">> ELSE <<>>)

----------------------------------------------------------------------------
Init ==
    /\ pc = "args"
    /\ argc \in 0..MaxArgc
    /\ lib = NULL
    /\ passThruOpen = NULL
    /\ passThruClose = NULL
    /\ passThruGetLastError = NULL
    /\ deviceId = 0
    /\ openStatus = 0
    /\ closeStatus = 0
    /\ cout = <<>>
    /\ cerr = <<>>
    /\ exitCode = NoExit
    /\ trace = <<>>
    /\ lastError = 0
    /\ fmResult = NoBuffer
    /\ driverText = <<>>
    /\ errBuf = <<>>
    /\ closeArg = NoCall
    /\ history = <<>>

(* the guard off by one: argv[1] is read although only argv[0] exists *)
MissingArgument_OffByOne(n) == n < 1

(* the guard rejecting every argument count but one positional argument *)
MissingArgument_ExactlyOne(n) == n # 2

(* if (argc < 2) { usage; return 2; } *)
MissingArgument(n) == n < 2

Usage ==
    /\ pc = "args"
    /\ MissingArgument(argc)
    /\ cerr' = cerr \o UsageLine
    /\ exitCode' = 2
    /\ trace' = trace \o <<"cerr", "return">>
    /\ pc' = "done"
    /\ UNCHANGED <<argc, lib, passThruOpen, passThruClose, passThruGetLastError,
                   deviceId, openStatus, closeStatus, cout,
                   lastError, fmResult, driverText, errBuf, closeArg, history>>

(* argc >= 2: dllPath = argv[1], go on to LoadLibraryA *)
TakePath ==
    /\ pc = "args"
    /\ ~MissingArgument(argc)
    /\ pc' = "load"
    /\ UNCHANGED <<argc, lib, passThruOpen, passThruClose, passThruGetLastError,
                   deviceId, openStatus, closeStatus, cout, cerr, exitCode, trace,
                   lastError, fmResult, driverText, errBuf, closeArg, history>>

(* LoadLibraryA returned a module handle *)
LoadOk ==
    /\ pc = "load"
    /\ lib' = Handle
    /\ trace' = trace \o <<"LoadLibraryA">>
    /\ pc' = "resolve"
    /\ UNCHANGED <<argc, passThruOpen, passThruClose, passThruGetLastError,
                   deviceId, openStatus, closeStatus, cout, cerr, exitCode,
                   lastError, fmResult, driverText, errBuf, closeArg, history>>

(* the load failure path releasing the null handle like the later paths *)
LoadFailed_Release ==
    /\ pc = "load"
    /\ \E e \in LastErrors :
          \E f \in (IF e = 0 THEN {fmResult} ELSE FormatResults) :
             /\ lastError' = e
             /\ fmResult' = f
             /\ cerr' = cerr \o LoadPrefix \o GetLastWinError(e, f) \o MessageEnd \o Endl
             /\ trace' = trace \o <<"LoadLibraryA">> \o GetLastWinErrorCalls(e, f)
                               \o <<"cerr", "FreeLibrary", "return">>
    /\ lib' = NULL
    /\ exitCode' = 1
    /\ pc' = "done"
    /\ UNCHANGED <<argc, passThruOpen, passThruClose, passThruGetLastError,
                   deviceId, openStatus, closeStatus, cout,
                   driverText, errBuf, closeArg, history>>

(* LoadLibraryA returned NULL: report stage load, return 1 *)
LoadFailed ==
    /\ pc = "load"
    /\ \E e \in LastErrors :
          \E f \in (IF e = 0 THEN {fmResult} ELSE FormatResults) :
             /\ lastError' = e
             /\ fmResult' = f
             /\ cerr' = cerr \o LoadPrefix \o GetLastWinError(e, f) \o MessageEnd \o Endl
             /\ trace' = trace \o <<"LoadLibraryA">> \o GetLastWinErrorCalls(e, f)
                               \o <<"cerr", "return">>
    /\ lib' = NULL
    /\ exitCode' = 1
    /\ pc' = "done"
    /\ UNCHANGED <<argc, passThruOpen, passThruClose, passThruGetLastError,
                   deviceId, openStatus, closeStatus, cout,
                   driverText, errBuf, closeArg, history>>

(* the three GetProcAddress calls *)
Resolve ==
    /\ pc = "resolve"
    /\ passThruOpen' \in Pointers
    /\ passThruClose' \in Pointers
    /\ passThruGetLastError' \in Pointers
    /\ trace' = trace \o <<"GetProcAddress(PassThruOpen)", "GetProcAddress(PassThruClose)",
                            "GetProcAddress(PassThruGetLastError)">>
    /\ pc' = "symbols"
    /\ UNCHANGED <<argc, lib, deviceId, openStatus, closeStatus, cout, cerr, exitCode,
                   lastError, fmResult, driverText, errBuf, closeArg, history>>

(* the test forgetting the third export *)
ExportsMissing_TwoOnly(o, c, g) == o = NULL \/ c = NULL

(* !passThruOpen || !passThruClose || !passThruGetLastError *)
ExportsMissing(o, c, g) == o = NULL \/ c = NULL \/ g = NULL

(* the symbols failure path returning without FreeLibrary *)
SymbolsFailed_Leak ==
    /\ pc = "symbols"
    /\ ExportsMissing(passThruOpen, passThruClose, passThruGetLastError)
    /\ cerr' = cerr \o SymbolsReport \o Endl
    /\ trace' = trace \o <<"cerr", "return">>
    /\ exitCode' = 1
    /\ pc' = "done"
    /\ UNCHANGED <<argc, lib, passThruOpen, passThruClose, passThruGetLastError,
                   deviceId, openStatus, closeStatus, cout,
                   lastError, fmResult, driverText, errBuf, closeArg, history>>

(* the symbols report carrying a code field like the open and close reports *)
SymbolsFailed_WithCode ==
    /\ pc = "symbols"
    /\ ExportsMissing(passThruOpen, passThruClose, passThruGetLastError)
    /\ cerr' = cerr \o ErrorHead("\"symbols\"") \o <<",", "\"code\"", ":">>
                     \o LongToString(openStatus)
                     \o <<",", "\"message\"", ":", "\"Required J2534 exports missing\"", "}">>
                     \o Endl
    /\ trace' = trace \o <<"cerr", "FreeLibrary", "return">>
    /\ exitCode' = 1
    /\ pc' = "done"
    /\ UNCHANGED <<argc, lib, passThruOpen, passThruClose, passThruGetLastError,
                   deviceId, openStatus, closeStatus, cout,
                   lastError, fmResult, driverText, errBuf, closeArg, history>>

SymbolsFailed ==
    /\ pc = "symbols"
    /\ ExportsMissing(passThruOpen, passThruClose, passThruGetLastError)
    /\ cerr' = cerr \o SymbolsReport \o Endl
    /\ trace' = trace \o <<"cerr", "FreeLibrary", "return">>
    /\ exitCode' = 1
    /\ pc' = "done"
    /\ UNCHANGED <<argc, lib, passThruOpen, passThruClose, passThruGetLastError,
                   deviceId, openStatus, closeStatus, cout,
                   lastError, fmResult, driverText, errBuf, closeArg, history>>

SymbolsOk ==
    /\ pc = "symbols"
    /\ ~ExportsMissing(passThruOpen, passThruClose, passThruGetLastError)
    /\ pc' = "open"
    /\ UNCHANGED <<argc, lib, passThruOpen, passThruClose, passThruGetLastError,
                   deviceId, openStatus, closeStatus, cout, cerr, exitCode, trace,
                   lastError, fmResult, driverText, errBuf, closeArg, history>>

(* a failed PassThruOpen tried a second time *)
Open_Retry ==
    /\ pc = "open"
    /\ openStatus' \in StatusValues
    /\ deviceId' \in DeviceIds
    /\ \E first \in StatusValues :
          trace' = trace \o (IF first # 0 THEN <<"PassThruOpen", "PassThruOpen">>
                                         ELSE <<"PassThruOpen">>)
    /\ pc' = "opened"
    /\ UNCHANGED <<argc, lib, passThruOpen, passThruClose, passThruGetLastError,
                   closeStatus, cout, cerr, exitCode,
                   lastError, fmResult, driverText, errBuf, closeArg, history>>

(* deviceId = 0; openStatus = passThruOpen(nullptr, &deviceId) *)
Open ==
    /\ pc = "open"
    /\ openStatus' \in StatusValues
    /\ deviceId' \in DeviceIds
    /\ trace' = trace \o <<"PassThruOpen">>
    /\ pc' = "opened"
    /\ UNCHANGED <<argc, lib, passThruOpen, passThruClose, passThruGetLastError,
                   closeStatus, cout, cerr, exitCode,
                   lastError, fmResult, driverText, errBuf, closeArg, history>>

(* err[256] declared without its initializer: when the driver writes
   nothing the buffer holds whatever the stack held *)
ErrBuffer_Uninitialized(written) ==
    IF written = <<>> THEN {<<>>, <<"?">>} ELSE {written}

(* char err[256] = {0}; passThruGetLastError(err): the contents of the
   buffer after the driver wrote its text into the zeroed buffer *)
ErrBuffer(written) == {written}

(* the open failure path releasing the library before it reports *)
OpenFailed_ReleaseFirst ==
    /\ pc = "opened"
    /\ openStatus # 0
    /\ \E written \in DriverTexts :
          /\ driverText' = written
          /\ errBuf' \in ErrBuffer(written)
    /\ cerr' = cerr \o OpenPrefix \o LongToString(openStatus)
                     \o MessageOpen \o errBuf' \o MessageEnd \o Endl
    /\ trace' = trace \o <<"PassThruGetLastError", "FreeLibrary", "cerr", "return">>
    /\ exitCode' = 1
    /\ pc' = "done"
    /\ UNCHANGED <<argc, lib, passThruOpen, passThruClose, passThruGetLastError,
                   deviceId, openStatus, closeStatus, cout,
                   lastError, fmResult, closeArg, history>>

(* the open report printing closeStatus where openStatus is meant *)
OpenFailed_WrongCode ==
    /\ pc = "opened"
    /\ openStatus # 0
    /\ \E written \in DriverTexts :
          /\ driverText' = written
          /\ errBuf' \in ErrBuffer(written)
    /\ cerr' = cerr \o OpenPrefix \o LongToString(closeStatus)
                     \o MessageOpen \o errBuf' \o MessageEnd \o Endl
    /\ trace' = trace \o <<"PassThruGetLastError", "cerr", "FreeLibrary", "return">>
    /\ exitCode' = 1
    /\ pc' = "done"
    /\ UNCHANGED <<argc, lib, passThruOpen, passThruClose, passThruGetLastError,
                   deviceId, openStatus, closeStatus, cout,
                   lastError, fmResult, closeArg, history>>

(* openStatus != 0: fetch the driver text, report stage open, release, return 1 *)
OpenFailed ==
    /\ pc = "opened"
    /\ openStatus # 0
    /\ \E written \in DriverTexts :
          /\ driverText' = written
          /\ errBuf' \in ErrBuffer(written)
    /\ cerr' = cerr \o OpenPrefix \o LongToString(openStatus)
                     \o MessageOpen \o errBuf' \o MessageEnd \o Endl
    /\ trace' = trace \o <<"PassThruGetLastError", "cerr", "FreeLibrary", "return">>
    /\ exitCode' = 1
    /\ pc' = "done"
    /\ UNCHANGED <<argc, lib, passThruOpen, passThruClose, passThruGetLastError,
                   deviceId, openStatus, closeStatus, cout,
                   lastError, fmResult, closeArg, history>>

(* PassThruClose called with the initial value of deviceId instead of the
   id PassThruOpen wrote *)
Close_StaleId ==
    /\ pc = "opened"
    /\ openStatus = 0
    /\ closeStatus' \in StatusValues
    /\ closeArg' = 0
    /\ trace' = trace \o <<"PassThruClose", "FreeLibrary">>
    /\ pc' = "closed"
    /\ UNCHANGED <<argc, lib, passThruOpen, passThruClose, passThruGetLastError,
                   deviceId, openStatus, cout, cerr, exitCode,
                   lastError, fmResult, driverText, errBuf, history>>

(* the library released before the session is closed *)
Close_AfterRelease ==
    /\ pc = "opened"
    /\ openStatus = 0
    /\ closeStatus' \in StatusValues
    /\ closeArg' = deviceId
    /\ trace' = trace \o <<"FreeLibrary", "PassThruClose">>
    /\ pc' = "closed"
    /\ UNCHANGED <<argc, lib, passThruOpen, passThruClose, passThruGetLastError,
                   deviceId, openStatus, cout, cerr, exitCode,
                   lastError, fmResult, driverText, errBuf, history>>

(* closeStatus = passThruClose(deviceId); FreeLibrary(lib) *)
Close ==
    /\ pc = "opened"
    /\ openStatus = 0
    /\ closeStatus' \in StatusValues
    /\ closeArg' = deviceId
    /\ trace' = trace \o <<"PassThruClose", "FreeLibrary">>
    /\ pc' = "closed"
    /\ UNCHANGED <<argc, lib, passThruOpen, passThruClose, passThruGetLastError,
                   deviceId, openStatus, cout, cerr, exitCode,
                   lastError, fmResult, driverText, errBuf, history>>

(* the close failure branch without its return: it falls through to the
   success report and return 0 *)
CloseFailed_FallThrough ==
    /\ pc = "closed"
    /\ closeStatus # 0
    /\ cerr' = cerr \o ClosePrefix \o LongToString(closeStatus) \o CloseTail \o Endl
    /\ cout' = cout \o OkReport \o Endl
    /\ trace' = trace \o <<"cerr", "cout", "return">>
    /\ exitCode' = 0
    /\ pc' = "done"
    /\ UNCHANGED <<argc, lib, passThruOpen, passThruClose, passThruGetLastError,
                   deviceId, openStatus, closeStatus,
                   lastError, fmResult, driverText, errBuf, closeArg, history>>

(* the close report written without its code field *)
CloseFailed_NoCode ==
    /\ pc = "closed"
    /\ closeStatus # 0
    /\ cerr' = cerr \o ErrorHead("\"close\"") \o CloseTail \o Endl
    /\ trace' = trace \o <<"cerr", "return">>
    /\ exitCode' = 1
    /\ pc' = "done"
    /\ UNCHANGED <<argc, lib, passThruOpen, passThruClose, passThruGetLastError,
                   deviceId, openStatus, closeStatus, cout,
                   lastError, fmResult, driverText, errBuf, closeArg, history>>

(* closeStatus != 0: report stage close, return 1 *)
CloseFailed ==
    /\ pc = "closed"
    /\ closeStatus # 0
    /\ cerr' = cerr \o ClosePrefix \o LongToString(closeStatus) \o CloseTail \o Endl
    /\ trace' = trace \o <<"cerr", "return">>
    /\ exitCode' = 1
    /\ pc' = "done"
    /\ UNCHANGED <<argc, lib, passThruOpen, passThruClose, passThruGetLastError,
                   deviceId, openStatus, closeStatus, cout,
                   lastError, fmResult, driverText, errBuf, closeArg, history>>

(* the success path returning the failure code *)
Success_ExitOne ==
    /\ pc = "closed"
    /\ closeStatus = 0
    /\ cout' = cout \o OkReport \o Endl
    /\ trace' = trace \o <<"cout", "return">>
    /\ exitCode' = 1
    /\ pc' = "done"
    /\ UNCHANGED <<argc, lib, passThruOpen, passThruClose, passThruGetLastError,
                   deviceId, openStatus, closeStatus, cerr,
                   lastError, fmResult, driverText, errBuf, closeArg, history>>

(* closeStatus == 0: report ok on stdout, return 0 *)
Success ==
    /\ pc = "closed"
    /\ closeStatus = 0
    /\ cout' = cout \o OkReport \o Endl
    /\ trace' = trace \o <<"cout", "return">>
    /\ exitCode' = 0
    /\ pc' = "done"
    /\ UNCHANGED <<argc, lib, passThruOpen, passThruClose, passThruGetLastError,
                   deviceId, openStatus, closeStatus, cerr,
                   lastError, fmResult, driverText, errBuf, closeArg, history>>

Next ==
    \/ Usage
    \/ TakePath
    \/ LoadOk
    \/ LoadFailed
    \/ Resolve
    \/ SymbolsFailed
    \/ SymbolsOk
    \/ Open
    \/ OpenFailed
    \/ Close
    \/ CloseFailed
    \/ Success

Spec == Init /\ [][Next]_vars

(* main runs on the only thread and every statement is followed by the     *)
(* next one: as long as the native calls return, a step that can be taken  *)
(* is taken.                                                               *)
FairSpec == Spec /\ WF_vars(Next)

----------------------------------------------------------------------------
(* A second invocation of the probe.  What one run was given (its argument *)
(* count and everything the operating system and the driver answered) and  *)
(* what it produced is kept in history; the new process starts from the    *)
(* initial state of main, and its environment answers afresh.              *)

RunRecord ==
    [ given   |-> [argc |-> argc, lib |-> lib, lastError |-> lastError,
                   fmResult |-> fmResult,
                   passThruOpen |-> passThruOpen, passThruClose |-> passThruClose,
                   passThruGetLastError |-> passThruGetLastError,
                   openStatus |-> openStatus, deviceId |-> deviceId,
                   driverText |-> driverText, closeStatus |-> closeStatus],
      cout     |-> cout,
      cerr     |-> cerr,
      exitCode |-> exitCode ]

Rerun ==
    /\ pc = "done"
    /\ history = <<>>
    /\ history' = <<RunRecord>>
    /\ pc' = "args"
    /\ argc' \in 0..MaxArgc
    /\ lib' = NULL
    /\ passThruOpen' = NULL
    /\ passThruClose' = NULL
    /\ passThruGetLastError' = NULL
    /\ deviceId' = 0
    /\ openStatus' = 0
    /\ closeStatus' = 0
    /\ cout' = <<>>
    /\ cerr' = <<>>
    /\ exitCode' = NoExit
    /\ trace' = <<>>
    /\ lastError' = 0
    /\ fmResult' = NoBuffer
    /\ driverText' = <<>>
    /\ errBuf' = <<>>
    /\ closeArg' = NoCall

NextTwoRuns ==
    \/ Next
    \/ Rerun

SpecTwoRuns == Init /\ [][NextTwoRuns]_vars

----------------------------------------------------------------------------
(* Reading the run back: what was called, what was written.                *)

RECURSIVE Count(_, _)
Count(s, x) ==
    IF s = <<>> THEN 0
    ELSE (IF Head(s) = x THEN 1 ELSE 0) + Count(Tail(s), x)

Called(fn) == Count(trace, fn) > 0

(* position of the first occurrence of x in s, 0 when there is none *)
Pos(s, x) ==
    IF \E i \in 1..Len(s) : s[i] = x
    THEN CHOOSE i \in 1..Len(s) : s[i] = x /\ \A j \in 1..(i - 1) : s[j] # x
    ELSE 0

Before(x, y) == Pos(trace, x) > 0 /\ Pos(trace, x) < Pos(trace, y)

Lines(stream) == Count(stream, "\n")

Terminated == pc = "done"

(* the field key of a JSON report: the key token followed by a colon *)
HasKey(stream, key) ==
    \E i \in 1..(Len(stream) - 1) : stream[i] = key /\ stream[i + 1] = ":"

KeyPos(stream, key) ==
    CHOOSE i \in 1..(Len(stream) - 1) : stream[i] = key /\ stream[i + 1] = ":"

(* the token that follows key and colon *)
ValueToken(stream, key) == stream[KeyPos(stream, key) + 2]

(* the characters between key-colon and the next comma *)
ValueChars(stream, key) ==
    LET from == KeyPos(stream, key) + 2
        to == CHOOSE j \in from..Len(stream) :
                  stream[j] = "," /\ \A k \in from..(j - 1) : stream[k] # ","
    IN  SubSeq(stream, from, to - 1)

DigitValue(c) == CHOOSE d \in 0..9 : DigitChar[d + 1] = c

RECURSIVE ParseNeg(_, _)
(* minus the number written by the digits, continuing from acc *)
ParseNeg(digits, acc) ==
    IF digits = <<>> THEN acc
    ELSE ParseNeg(Tail(digits), acc * 10 - DigitValue(Head(digits)))

(* the decimal text chars denotes the long n; an unsigned text of magnitude
   2^31 denotes no long *)
Denotes(chars, n) ==
    IF Head(chars) = "-" THEN ParseNeg(Tail(chars), 0) = n
    ELSE LET m == ParseNeg(chars, 0) IN m # LONG_MIN /\ 0 - m = n

StageOf(stream) == ValueToken(stream, "\"stage\"")

NativeCalls ==
    {"LoadLibraryA", "GetLastError", "FormatMessageA", "LocalFree",
     "GetProcAddress(PassThruOpen)", "GetProcAddress(PassThruClose)",
     "GetProcAddress(PassThruGetLastError)",
     "PassThruOpen", "PassThruClose", "PassThruGetLastError", "FreeLibrary"}

GetProcAddressCalls ==
    {"GetProcAddress(PassThruOpen)", "GetProcAddress(PassThruClose)",
     "GetProcAddress(PassThruGetLastError)"}

NoNativeCall == \A i \in 1..Len(trace) : trace[i] \notin NativeCalls

(* the four conditions of a successful probe *)
Loaded == Called("LoadLibraryA") /\ lib # NULL
AllResolved ==
    /\ \A g \in GetProcAddressCalls : Called(g)
    /\ passThruOpen # NULL /\ passThruClose # NULL /\ passThruGetLastError # NULL
OpenReturnedZero == Called("PassThruOpen") /\ openStatus = 0
CloseReturnedZero == Called("PassThruClose") /\ closeStatus = 0
OpenReturnedNonZero == Called("PassThruOpen") /\ openStatus # 0
CloseReturnedNonZero == Called("PassThruClose") /\ closeStatus # 0

ProbeSucceeded == Loaded /\ AllResolved /\ OpenReturnedZero /\ CloseReturnedZero

Stages == {"\"load\"", "\"symbols\"", "\"open\"", "\"close\""}

----------------------------------------------------------------------------
(* C1: FreeLibrary is never called twice; when the run has ended it has    *)
(* been called exactly once, before the return, if LoadLibraryA gave a     *)
(* non-null handle, and not at all if the load failed or the run ended     *)
(* with the usage error.                                                   *)
C1_FreeLibraryExactlyOnce ==
    /\ Count(trace, "FreeLibrary") <= 1
    /\ Terminated =>
          IF Loaded
          THEN Count(trace, "FreeLibrary") = 1 /\ Before("FreeLibrary", "return")
          ELSE Count(trace, "FreeLibrary") = 0

C1_Witness ==
    /\ Terminated /\ Loaded /\ passThruClose = NULL
    /\ Count(trace, "FreeLibrary") = 1

C3_ExitCodes ==
    Terminated =>
       /\ exitCode \in {0, 1, 2}
       /\ exitCode = 0 <=> ProbeSucceeded
       /\ exitCode = 0 => cout = OkReport \o Endl /\ cerr = <<>>
       /\ exitCode = 1 <=> argc >= 2 /\ ~ProbeSucceeded
       /\ exitCode = 1 => HasKey(cerr, "\"stage\"") /\ StageOf(cerr) \in Stages
       /\ exitCode = 2 <=> argc < 2

C3_Witness == Terminated /\ ProbeSucceeded /\ exitCode = 0 /\ deviceId = MaxDeviceId

(* C4: with no path argument no native call is ever made, and the run ends *)
(* with exit code 2, the usage line on stderr and nothing on stdout.       *)
C4_UsageError ==
    argc < 2 =>
       /\ NoNativeCall
       /\ pc \in {"args", "done"}
       /\ Terminated => exitCode = 2 /\ cerr = UsageLine /\ cout = <<>>

C4_Witness == Terminated /\ argc = 1 /\ exitCode = 2 /\ cerr = UsageLine

(* C5 as stated: every invocation whose number of positional arguments     *)
(* (argc - 1) is not exactly one ends with exit code 2 and never calls     *)
(* LoadLibraryA.                                                           *)
C5_ExactlyOneArgument ==
    argc - 1 # 1 =>
       /\ ~Called("LoadLibraryA")
       /\ Terminated => exitCode = 2

(* C5 amended: the invocations that end with exit code 2 without a load    *)
(* attempt are exactly those with no positional argument; with one or more *)
(* positional arguments LoadLibraryA is called once and the exit code is   *)
(* not 2.                                                                  *)
C5_AtLeastOneArgument ==
    Terminated =>
       /\ argc - 1 < 1 => exitCode = 2 /\ ~Called("LoadLibraryA")
       /\ argc - 1 >= 1 => exitCode # 2 /\ Count(trace, "LoadLibraryA") = 1

C5_Witness == Terminated /\ argc - 1 = 2 /\ Called("LoadLibraryA") /\ exitCode = 1

(* C6: when LoadLibraryA fails the run ends with exit code 1 and a stage   *)
(* load report on stderr, and GetProcAddress, the three PassThru entry     *)
(* points and FreeLibrary are never called.                                *)
C6_LoadFailure ==
    (Called("LoadLibraryA") /\ lib = NULL) =>
       /\ Terminated /\ exitCode = 1
       /\ Lines(cerr) = 1 /\ StageOf(cerr) = "\"load\"" /\ cout = <<>>
       /\ \A fn \in GetProcAddressCalls \cup
                    {"PassThruOpen", "PassThruClose", "PassThruGetLastError",
                     "FreeLibrary"} : ~Called(fn)

C6_Witness ==
    /\ Terminated /\ Called("LoadLibraryA") /\ lib = NULL
    /\ Called("FormatMessageA") /\ StageOf(cerr) = "\"load\""

(* C7: for a loaded library with any of the three exports unresolved the   *)
(* run ends with exit code 1 and the stage symbols report with the fixed   *)
(* message, FreeLibrary is called before the return, and no PassThru entry *)
(* point is ever called.                                                   *)
AnyExportUnresolved ==
    /\ \A g \in GetProcAddressCalls : Called(g)
    /\ \E p \in {passThruOpen, passThruClose, passThruGetLastError} : p = NULL

C7_SymbolsFailure ==
    (Loaded /\ AnyExportUnresolved) =>
       /\ \A fn \in {"PassThruOpen", "PassThruClose", "PassThruGetLastError"} :
             ~Called(fn)
       /\ pc \in {"symbols", "done"}
       /\ Terminated =>
             /\ exitCode = 1
             /\ cerr = SymbolsReport \o Endl /\ cout = <<>>
             /\ StageOf(cerr) = "\"symbols\""
             /\ ValueToken(cerr, "\"message\"") = "\"Required J2534 exports missing\""
             /\ Before("FreeLibrary", "return")

C7_Witness ==
    /\ Terminated /\ Loaded
    /\ passThruOpen # NULL /\ passThruClose # NULL /\ passThruGetLastError = NULL
    /\ StageOf(cerr) = "\"symbols\""

(* C8: for every non-zero value returned by PassThruOpen the run ends with *)
(* exit code 1 and a stage open report whose code field denotes that       *)
(* value; PassThruGetLastError is called exactly once, before the report;  *)
(* PassThruClose is never called; FreeLibrary is called before the return. *)
C8_OpenFailure ==
    OpenReturnedNonZero =>
       /\ ~Called("PassThruClose")
       /\ pc \in {"opened", "done"}
       /\ Terminated =>
             /\ exitCode = 1
             /\ Lines(cerr) = 1 /\ cout = <<>>
             /\ StageOf(cerr) = "\"open\""
             /\ HasKey(cerr, "\"code\"")
             /\ Denotes(ValueChars(cerr, "\"code\""), openStatus)
             /\ Count(trace, "PassThruGetLastError") = 1
             /\ Before("PassThruGetLastError", "cerr")
             /\ Before("FreeLibrary", "return")

C8_Witness ==
    /\ Terminated /\ Called("PassThruOpen") /\ openStatus = LONG_MIN
    /\ StageOf(cerr) = "\"open\""

(* C9: when PassThruOpen returns 0 and PassThruClose a non-zero value the  *)
(* run ends with exit code 1 and a stage close report whose code field     *)
(* denotes the value PassThruClose returned and whose message is the fixed *)
(* literal; PassThruGetLastError is never called.                          *)
C9_CloseFailure ==
    (OpenReturnedZero /\ CloseReturnedNonZero) =>
       /\ ~Called("PassThruGetLastError")
       /\ pc \in {"closed", "done"}
       /\ Terminated =>
             /\ exitCode = 1
             /\ Lines(cerr) = 1 /\ cout = <<>>
             /\ StageOf(cerr) = "\"close\""
             /\ HasKey(cerr, "\"code\"")
             /\ Denotes(ValueChars(cerr, "\"code\""), closeStatus)
             /\ ValueToken(cerr, "\"message\"") = "\"PassThruClose failed\""

C9_Witness ==
    /\ Terminated /\ OpenReturnedZero /\ Called("PassThruClose")
    /\ closeStatus = -1 /\ StageOf(cerr) = "\"close\""

(* C10 as stated: a report carries a code field only when its stage is     *)
(* open.                                                                   *)
C10_CodeOnlyForOpen ==
    \A stream \in {cout, cerr} :
       HasKey(stream, "\"code\"") =>
          HasKey(stream, "\"stage\"") /\ StageOf(stream) = "\"open\""

(* C10 amended: a report carries a code field only when its stage is open  *)
(* or close; the load and symbols reports and the success report have      *)
(* none.                                                                   *)
C10_CodeOnlyForOpenOrClose ==
    \A stream \in {cout, cerr} :
       HasKey(stream, "\"code\"") =>
          HasKey(stream, "\"stage\"") /\ StageOf(stream) \in {"\"open\"", "\"close\""}

C10_Witness ==
    /\ Terminated /\ HasKey(cerr, "\"code\"") /\ StageOf(cerr) = "\"close\""
    /\ closeStatus = LONG_MAX

(* C11: a report carries a code field if and only if its stage is open or  *)
(* close; the load and symbols reports, the success report and the usage   *)
(* line carry none.                                                        *)
C11_CodeIffOpenOrClose ==
    Terminated =>
       \A stream \in {cout, cerr} :
          HasKey(stream, "\"code\"") <=>
             (HasKey(stream, "\"stage\"")
                /\ StageOf(stream) \in {"\"open\"", "\"close\""})

C11_Witness ==
    /\ Terminated /\ CloseReturnedNonZero /\ closeStatus = LONG_MIN
    /\ HasKey(cerr, "\"code\"") /\ StageOf(cerr) = "\"close\""

(* C12: when a second run of the probe is given the same argument count    *)
(* and the same answers of the environment as the first (load result,      *)
(* last-error code and its translation, resolved exports, open and close   *)
(* return values, device id, driver error text), it writes the same text   *)
(* to the same streams and returns the same exit code.                     *)
SecondRunGivenTheSame ==
    /\ history # <<>>
    /\ Terminated
    /\ history[1].given = RunRecord.given

C12_SameRunSameOutcome ==
    SecondRunGivenTheSame =>
       /\ cout = history[1].cout
       /\ cerr = history[1].cerr
       /\ exitCode = history[1].exitCode

C12_Witness ==
    /\ SecondRunGivenTheSame /\ OpenReturnedNonZero
    /\ driverText = <<>> /\ cerr = history[1].cerr /\ exitCode = 1

(* C13: PassThruClose is called only after PassThruOpen returned 0, once,  *)
(* with the device id PassThruOpen wrote, and it is called whenever open   *)
(* returned 0; FreeLibrary follows it and precedes the report, whatever    *)
(* PassThruClose returned.                                                 *)
C13_CloseAfterOpen ==
    /\ Called("PassThruClose") =>
          /\ Count(trace, "PassThruClose") = 1
          /\ OpenReturnedZero
          /\ Before("PassThruOpen", "PassThruClose")
          /\ closeArg = deviceId
          /\ Before("PassThruClose", "FreeLibrary")
          /\ \A report \in {"cout", "cerr"} :
                Called(report) => Before("FreeLibrary", report)
    /\ ~Called("PassThruClose") => closeArg = NoCall
    /\ (Terminated /\ OpenReturnedZero) => Called("PassThruClose")

C13_Witness ==
    /\ Terminated /\ Called("PassThruClose") /\ closeArg = MaxDeviceId
    /\ closeStatus # 0 /\ Before("FreeLibrary", "cerr")

(* C14: no native step is made twice, the outcome of a terminated run is   *)
(* the first step that failed (or success when none did), and every run    *)
(* whose native calls return ends in one of the six outcomes.              *)
Outcome ==
    IF cout = OkReport \o Endl /\ cerr = <<>> THEN "success"
    ELSE IF cerr = UsageLine /\ cout = <<>> THEN "usage"
    ELSE IF HasKey(cerr, "\"stage\"") /\ cout = <<>> /\ Lines(cerr) = 1
         THEN StageOf(cerr)
    ELSE "none"

FirstFailure ==
    IF argc < 2 THEN "usage"
    ELSE IF lib = NULL THEN "\"load\""
    ELSE IF \E p \in {passThruOpen, passThruClose, passThruGetLastError} : p = NULL
         THEN "\"symbols\""
    ELSE IF openStatus # 0 THEN "\"open\""
    ELSE IF closeStatus # 0 THEN "\"close\""
    ELSE "success"

SixOutcomes == {"usage", "success"} \cup Stages

NoStepTwice ==
    \A fn \in {"LoadLibraryA", "PassThruOpen", "PassThruClose",
               "PassThruGetLastError"} : Count(trace, fn) <= 1

C14_NoRetryOneOutcome ==
    /\ [](NoStepTwice /\ (Terminated => Outcome = FirstFailure))
    /\ <>(Terminated /\ Outcome \in SixOutcomes)

C14_Witness ==
    /\ Terminated /\ Outcome = "\"open\"" /\ FirstFailure = "\"open\""
    /\ Count(trace, "PassThruOpen") = 1

(* C15: every call of PassThruOpen, PassThruClose or PassThruGetLastError  *)
(* comes after the successful LoadLibraryA and the successful resolution   *)
(* of all three exports, and no FreeLibrary precedes it.                   *)
EntryPoints == {"PassThruOpen", "PassThruClose", "PassThruGetLastError"}

C15_EntryPointsWhileLoaded ==
    \A i \in 1..Len(trace) :
       trace[i] \in EntryPoints =>
          /\ lib # NULL
          /\ Pos(trace, "LoadLibraryA") \in 1..(i - 1)
          /\ \A g \in GetProcAddressCalls : Pos(trace, g) \in 1..(i - 1)
          /\ passThruOpen # NULL /\ passThruClose # NULL /\ passThruGetLastError # NULL
          /\ \A j \in 1..i : trace[j] # "FreeLibrary"

C15_Witness ==
    /\ Terminated /\ Called("PassThruClose") /\ Called("FreeLibrary")
    /\ Pos(trace, "PassThruClose") < Pos(trace, "FreeLibrary")

(* C16: on the symbols and open failure paths the report is written to     *)
(* stderr before FreeLibrary is called; on the close failure and success   *)
(* paths FreeLibrary is called before the report is written; on all four   *)
(* FreeLibrary precedes the return.                                        *)
C16_ReportReleaseOrder ==
    (Terminated /\ Loaded) =>
       /\ Before("FreeLibrary", "return")
       /\ FirstFailure \in {"\"symbols\"", "\"open\""} => Before("cerr", "FreeLibrary")
       /\ FirstFailure = "\"close\"" => Before("FreeLibrary", "cerr")
       /\ FirstFailure = "success" => Before("FreeLibrary", "cout")

C16_Witness ==
    /\ Terminated /\ Loaded /\ FirstFailure = "\"open\""
    /\ Before("cerr", "FreeLibrary") /\ Before("FreeLibrary", "return")

(* C17: in the load report the message is none when the last-error code is *)
(* 0, and then FormatMessageA is not called; it is unknown when            *)
(* FormatMessageA gave size 0 or no buffer; otherwise it is the translated *)
(* text; LocalFree is called once exactly when FormatMessageA left a       *)
(* buffer, also when the message is unknown.                               *)
MessageChars(stream) ==
    LET from == KeyPos(stream, "\"message\"") + 3
        to == CHOOSE j \in from..Len(stream) :
                  stream[j] = "\"" /\ \A k \in from..(j - 1) : stream[k] # "\""
    IN  SubSeq(stream, from, to - 1)

LoadFailedRun == Terminated /\ Called("LoadLibraryA") /\ lib = NULL

C17_GetLastWinError ==
    LoadFailedRun =>
       /\ Count(trace, "GetLastError") = 1
       /\ lastError = 0 =>
             /\ MessageChars(cerr) = <<"n", "o", "n", "e">>
             /\ ~Called("FormatMessageA") /\ ~Called("LocalFree")
       /\ lastError # 0 =>
             /\ Count(trace, "FormatMessageA") = 1
             /\ (fmResult.size = 0 \/ fmResult.null) =>
                   MessageChars(cerr) = <<"u", "n", "k", "n", "o", "w", "n">>
             /\ (fmResult.size # 0 /\ ~fmResult.null) =>
                   MessageChars(cerr) = fmResult.text
             /\ Count(trace, "LocalFree") = (IF fmResult.null THEN 0 ELSE 1)
             /\ ~fmResult.null => Before("FormatMessageA", "LocalFree")

C17_Witness ==
    /\ LoadFailedRun /\ lastError # 0 /\ fmResult.size = 0 /\ ~fmResult.null
    /\ Count(trace, "LocalFree") = 1
    /\ MessageChars(cerr) = <<"u", "n", "k", "n", "o", "w", "n">>

====
